---- MODULE Spec2Model ----
(***************************************************************************)
(* Model of the auto-tag action: src/auto-tag/main.py (the script that     *)
(* runs once per workflow invocation) and src/auto-tag/github_helpers.py   *)
(* (the Tag / GitHubHelper wrapper).                                       *)
(*                                                                         *)
(* Python strings are sequences of one-character strings, so that          *)
(* startswith / endswith / removeprefix / removesuffix / "in" / str(int)   *)
(* and the semver parser are computed, not assumed.                        *)
(***************************************************************************)
EXTENDS Integers, Sequences, FiniteSets, TLC

(***************************************************************************)
(* Bounds of the model.                                                    *)
(***************************************************************************)
\* number of workflow runs in one behaviour
MaxRuns == 2
\* number of function calls in one behaviour of CallSpec
MaxCalls == 1
\* length of the tag lists the functions are applied to
MaxTags == 2
\* length of the commit windows the functions are applied to
MaxWindow == 2
\* the largest version number bumped: one digit becomes two below it
MaxVersion == 10

(***************************************************************************)
(* Python str operations.                                                  *)
(***************************************************************************)
Digits == <<"0", "1", "2", "3", "4", "5", "6", "7", "8", "9">>

UpperCase == <<"A", "B", "C", "D", "E", "F", "G", "H", "I", "J", "K", "L", "M",
               "N", "O", "P", "Q", "R", "S", "T", "U", "V", "W", "X", "Y", "Z">>

LowerCase == <<"a", "b", "c", "d", "e", "f", "g", "h", "i", "j", "k", "l", "m",
               "n", "o", "p", "q", "r", "s", "t", "u", "v", "w", "x", "y", "z">>

Range(f) == {f[i] : i \in DOMAIN f}

DigitSet == Range(Digits)

UpperSet == Range(UpperCase)

AlnumHyphenSet == Range(Digits) \cup Range(UpperCase) \cup Range(LowerCase) \cup {"-"}

IsDigit(c) == c \in DigitSet

IsAlnumHyphen(c) == c \in AlnumHyphenSet

DigitVal(c) == (CHOOSE i \in 1..10 : Digits[i] = c) - 1

\* str.lower() on one character
LowerChar(c) ==
    IF c \in UpperSet
    THEN LowerCase[CHOOSE i \in 1..26 : UpperCase[i] = c]
    ELSE c

\* str.lower()
Lower(s) == [i \in 1..Len(s) |-> LowerChar(s[i])]

\* str.startswith
StartsWith(s, p) == Len(p) <= Len(s) /\ SubSeq(s, 1, Len(p)) = p

\* str.endswith
EndsWith(s, x) == Len(x) <= Len(s) /\ SubSeq(s, Len(s) - Len(x) + 1, Len(s)) = x

\* str.removeprefix
RemovePrefix(s, p) ==
    IF Len(p) > 0 /\ StartsWith(s, p) THEN SubSeq(s, Len(p) + 1, Len(s)) ELSE s

\* str.removesuffix
RemoveSuffix(s, x) ==
    IF Len(x) > 0 /\ EndsWith(s, x) THEN SubSeq(s, 1, Len(s) - Len(x)) ELSE s

\* the "sub in s" substring test
Contains(s, sub) ==
    \E i \in 1..(Len(s) - Len(sub) + 1) : SubSeq(s, i, i + Len(sub) - 1) = sub

\* str(int) for a non-negative int
RECURSIVE IntToStr(_)
IntToStr(n) ==
    IF n < 10 THEN <<Digits[n + 1]>>
    ELSE IntToStr(n \div 10) \o <<Digits[(n % 10) + 1]>>

\* int(str) for a string of digits
RECURSIVE StrToInt(_)
StrToInt(s) ==
    IF Len(s) = 0 THEN 0
    ELSE 10 * StrToInt(SubSeq(s, 1, Len(s) - 1)) + DigitVal(s[Len(s)])

(***************************************************************************)
(* semver.Version: the grammar of a valid version, parse, str, bump_*.     *)
(***************************************************************************)
\* (0|[1-9]\d*)
IsNumericId(s) ==
    /\ Len(s) > 0
    /\ \A i \in 1..Len(s) : IsDigit(s[i])
    /\ (Len(s) > 1 => s[1] # "0")

\* the positions of the character c in s
Positions(s, c) == {i \in 1..Len(s) : s[i] = c}

\* the dot-separated identifiers of s, as a set of (start, end) pieces
DotPieces(s) ==
    LET cuts == {0} \cup Positions(s, ".") \cup {Len(s) + 1}
    IN  {<<a, b>> \in cuts \X cuts :
            a < b /\ ~ \E k \in cuts : a < k /\ k < b}

\* a pre-release: dot-separated non-empty identifiers of [0-9A-Za-z-],
\* numeric ones without a leading zero
IsPrerelease(s) ==
    /\ Len(s) > 0
    /\ \A p \in DotPieces(s) :
        LET id == SubSeq(s, p[1] + 1, p[2] - 1)
        IN  /\ Len(id) > 0
            /\ \A i \in 1..Len(id) : IsAlnumHyphen(id[i])
            /\ ((\A i \in 1..Len(id) : IsDigit(id[i])) => IsNumericId(id))

\* build metadata: dot-separated non-empty identifiers of [0-9A-Za-z-]
IsBuild(s) ==
    /\ Len(s) > 0
    /\ \A p \in DotPieces(s) :
        LET id == SubSeq(s, p[1] + 1, p[2] - 1)
        IN  /\ Len(id) > 0
            /\ \A i \in 1..Len(id) : IsAlnumHyphen(id[i])

\* the length of the longest prefix of s made of digits
RECURSIVE DigitRun(_)
DigitRun(s) ==
    IF Len(s) = 0 \/ ~IsDigit(s[1]) THEN 0 ELSE 1 + DigitRun(Tail(s))

\* splits s into major "." minor "." patch rest; ok is FALSE when s does
\* not start with three dot-separated numeric identifiers
SplitCore(s) ==
    LET n1 == DigitRun(s)
        r1 == SubSeq(s, n1 + 2, Len(s))
        n2 == DigitRun(r1)
        r2 == SubSeq(r1, n2 + 2, Len(r1))
        n3 == DigitRun(r2)
        r3 == SubSeq(r2, n3 + 1, Len(r2))
    IN  [ok    |-> /\ IsNumericId(SubSeq(s, 1, n1))
                   /\ Len(s) > n1 /\ s[n1 + 1] = "."
                   /\ IsNumericId(SubSeq(r1, 1, n2))
                   /\ Len(r1) > n2 /\ r1[n2 + 1] = "."
                   /\ IsNumericId(SubSeq(r2, 1, n3)),
         major |-> SubSeq(s, 1, n1),
         minor |-> SubSeq(r1, 1, n2),
         patch |-> SubSeq(r2, 1, n3),
         rest  |-> r3]

\* splits the text after the patch number into pre-release and build
SplitRest(r) ==
    LET plus == Positions(r, "+")
        cut  == IF plus = {} THEN Len(r) + 1
                ELSE CHOOSE i \in plus : \A j \in plus : i <= j
        pre  == SubSeq(r, 1, cut - 1)
        bld  == SubSeq(r, cut + 1, Len(r))
    IN  [ok  |-> /\ (Len(pre) > 0 => pre[1] = "-" /\ IsPrerelease(Tail(pre)))
                 /\ (plus # {} => IsBuild(bld)),
         prerelease |-> IF Len(pre) > 0 THEN Tail(pre) ELSE <<>>,
         build      |-> bld]

\* semver.VersionInfo.is_valid
is_valid(s) ==
    LET c == SplitCore(s)
    IN  c.ok /\ SplitRest(c.rest).ok

\* semver.Version.parse, for a valid version
Version_parse(s) ==
    LET c == SplitCore(s)
        r == SplitRest(c.rest)
    IN  [major |-> StrToInt(c.major), minor |-> StrToInt(c.minor),
         patch |-> StrToInt(c.patch),
         prerelease |-> r.prerelease, build |-> r.build]

\* str(Version)
Version_str(v) ==
    IntToStr(v.major) \o <<".">> \o IntToStr(v.minor) \o <<".">> \o IntToStr(v.patch)
    \o (IF Len(v.prerelease) > 0 THEN <<"-">> \o v.prerelease ELSE <<>>)
    \o (IF Len(v.build) > 0 THEN <<"+">> \o v.build ELSE <<>>)

\* Version.bump_major
bump_major(v) ==
    [major |-> v.major + 1, minor |-> 0, patch |-> 0, prerelease |-> <<>>, build |-> <<>>]

\* bump_minor that forgets to reset patch
bump_minor_keeps_patch(v) ==
    [major |-> v.major, minor |-> v.minor + 1, patch |-> v.patch, prerelease |-> <<>>, build |-> <<>>]

\* Version.bump_minor
bump_minor(v) ==
    [major |-> v.major, minor |-> v.minor + 1, patch |-> 0, prerelease |-> <<>>, build |-> <<>>]

\* Version.bump_patch
bump_patch(v) ==
    [major |-> v.major, minor |-> v.minor, patch |-> v.patch + 1, prerelease |-> <<>>, build |-> <<>>]

(***************************************************************************)
(* Text constants of the program.                                          *)
(***************************************************************************)
\* the members of class BumpStrategy, in definition order
BumpStrategy == <<"MAJOR", "MINOR", "PATCH", "SKIP">>

\* BumpStrategy.<member>.value
BumpStrategyValue(m) ==
    CASE m = "MAJOR" -> <<"m", "a", "j", "o", "r">>
      [] m = "MINOR" -> <<"m", "i", "n", "o", "r">>
      [] m = "PATCH" -> <<"p", "a", "t", "c", "h">>
      [] m = "SKIP"  -> <<"s", "k", "i", "p">>

\* the text f"[#{strategy.lower()}]" searched for in a commit message
Marker(m) == <<"[", "#">> \o Lower(BumpStrategyValue(m)) \o <<"]">>

\* the version of the synthetic tag, "0.0.0"
ZeroVersion == <<"0", ".", "0", ".", "0">>

\* Configuration.BIND_TO_MAJOR, a class attribute that no input overrides
BIND_TO_MAJOR == TRUE

\* Configuration.DEFAULT_BRANCH when INPUT_MAIN_BRANCH is not set
DEFAULT_BRANCH == "main"

(***************************************************************************)
(* The tag predicates shared by the scans of the two files.                *)
(***************************************************************************)
\* tag.name.removeprefix(config.PREFIX).removesuffix(config.SUFFIX)
Middle(name, cfg) == RemoveSuffix(RemovePrefix(name, cfg.PREFIX), cfg.SUFFIX)

\* the condition of the version-tag scans
IsVersionTag(name, cfg) ==
    /\ StartsWith(name, cfg.PREFIX)
    /\ EndsWith(name, cfg.SUFFIX)
    /\ is_valid(Middle(name, cfg))

\* the condition of GitHubHelper.get_latest_major_tag
IsMajorTag(name, cfg) ==
    /\ StartsWith(name, cfg.PREFIX)
    /\ EndsWith(name, cfg.SUFFIX)
    /\ ~is_valid(Middle(name, cfg))

\* the condition of the repoint loop of main.py
IsRepointed(name, cfg, last_name) ==
    /\ StartsWith(name, cfg.PREFIX)
    /\ EndsWith(name, cfg.SUFFIX)
    /\ name # last_name
    /\ ~is_valid(Middle(name, cfg))

Tag(name, commit) == [name |-> name, commit |-> commit]

(***************************************************************************)
(* main.py: the functions.                                                 *)
(***************************************************************************)
\* the scan without its break: the last matching tag, or <<>>
RECURSIVE ScanWithoutBreak(_, _)
ScanWithoutBreak(tags, cfg) ==
    IF tags = <<>> THEN <<>>
    ELSE LET later == ScanWithoutBreak(Tail(tags), cfg)
         IN  IF later # <<>> THEN later
             ELSE IF IsVersionTag(tags[1].name, cfg)
                  THEN <<Tag(tags[1].name, tags[1].commit)>>
                  ELSE <<>>

\* the for loop of get_latest_tag_or_default: the first matching tag, or
\* <<>> for None
RECURSIVE FirstVersionTag(_, _)
FirstVersionTag(tags, cfg) ==
    IF tags = <<>> THEN <<>>
    ELSE IF IsVersionTag(tags[1].name, cfg)
         THEN <<Tag(tags[1].name, tags[1].commit)>>
         ELSE FirstVersionTag(Tail(tags), cfg)

\* get_latest_tag_or_default without "Force creation of a new tag"
get_latest_tag_or_default_unforced(tags, cfg, head_sha) ==
    LET found == IF tags = <<>> THEN <<>>
                 ELSE SelectSeq(tags, LAMBDA t : IsVersionTag(t.name, cfg))
    IN  IF found # <<>>
        THEN [tag |-> Tag(found[1].name, found[1].commit), config |-> cfg]
        ELSE [tag    |-> Tag(cfg.PREFIX \o ZeroVersion \o cfg.SUFFIX, head_sha),
              config |-> cfg]

\* get_latest_tag_or_default: the tag returned and config as the call
\* leaves it
get_latest_tag_or_default(tags, cfg, head_sha) ==
    LET found == FirstVersionTag(tags, cfg)
    IN  IF found # <<>>
        THEN [tag |-> found[1], config |-> cfg]
        ELSE [tag    |-> Tag(cfg.PREFIX \o ZeroVersion \o cfg.SUFFIX, head_sha),
              config |-> [cfg EXCEPT !.DEFAULT_BUMP_STRATEGY = "PATCH"]]

\* check_bump_strategy_since_last_tag over the messages of the commits
\* returned by get_commits(since=last_available_tag.date)
RECURSIVE check_bump_strategy_since_last_tag(_, _)
check_bump_strategy_since_last_tag(messages, cfg) ==
    IF messages = <<>> THEN cfg.DEFAULT_BUMP_STRATEGY
    ELSE LET hits == {i \in 1..Len(BumpStrategy) :
                        Contains(messages[1], Marker(BumpStrategy[i]))}
         IN  IF hits # {}
             THEN BumpStrategy[CHOOSE i \in hits : \A j \in hits : i <= j]
             ELSE check_bump_strategy_since_last_tag(Tail(messages), cfg)

\* bump_tag_version
bump_tag_version(strategy, last_available_tag, cfg, sha) ==
    LET current_version == Version_parse(Middle(last_available_tag.name, cfg))
        new_version ==
            IF strategy = "MAJOR" THEN bump_major(current_version)
            ELSE IF strategy = "MINOR" THEN bump_minor(current_version)
            ELSE IF strategy = "PATCH" THEN bump_patch(current_version)
            ELSE current_version
    IN  Tag(cfg.PREFIX \o Version_str(new_version) \o cfg.SUFFIX, sha)

\* the name of the major tag created after a MAJOR bump
new_major_tag_name(new_tag_name, cfg) ==
    cfg.PREFIX \o IntToStr(Version_parse(Middle(new_tag_name, cfg)).major + 1) \o cfg.SUFFIX

(***************************************************************************)
(* github_helpers.py: Tag and GitHubHelper.                                *)
(***************************************************************************)
\* Tag.bump_version; strategy is compared with the members' values
Tag_bump_version(self, strategy, cfg) ==
    LET current_version == Version_parse(Middle(self.name, cfg))
        new_version ==
            IF strategy = BumpStrategyValue("MAJOR") THEN bump_major(current_version)
            ELSE IF strategy = BumpStrategyValue("MINOR") THEN bump_minor(current_version)
            ELSE IF strategy = BumpStrategyValue("PATCH") THEN bump_patch(current_version)
            ELSE current_version
    IN  [self EXCEPT !.name = cfg.PREFIX \o Version_str(new_version) \o cfg.SUFFIX]

\* GitHubHelper.get_latest_tag
get_latest_tag(tags, cfg, head_sha) ==
    LET found == FirstVersionTag(tags, cfg)
    IN  IF found # <<>> THEN found[1]
        ELSE Tag(cfg.PREFIX \o ZeroVersion \o cfg.SUFFIX, head_sha)

\* the for loop of get_latest_major_tag, which has no break: acc is the
\* value of last_available_major_tag so far
RECURSIVE LastMajorTag(_, _, _)
LastMajorTag(tags, cfg, acc) ==
    IF tags = <<>> THEN acc
    ELSE LastMajorTag(Tail(tags), cfg,
                      IF IsMajorTag(tags[1].name, cfg)
                      THEN <<Tag(tags[1].name, tags[1].commit)>>
                      ELSE acc)

\* GitHubHelper.get_latest_major_tag
get_latest_major_tag(tags, cfg, head_sha) ==
    LET found == LastMajorTag(tags, cfg, <<>>)
    IN  IF found # <<>> THEN found[1]
        ELSE Tag(cfg.PREFIX \o <<"0">> \o cfg.SUFFIX, head_sha)

(***************************************************************************)
(* The remote repository: refs/tags as listed by get_tags(), most recent   *)
(* first, and the annotated tag objects.                                   *)
(***************************************************************************)
Names(tags) == {tags[i].name : i \in DOMAIN tags}

\* the tag set: name and target of every ref
TagSet(tags) == {tags[i] : i \in DOMAIN tags}

\* POST git/refs: the ref is listed first; a name that exists is refused
CreateRef(tags, name, sha) == <<Tag(name, sha)>> \o tags

\* DELETE git/refs/tags/<name>
DeleteRef(tags, name) == SelectSeq(tags, LAMBDA t : t.name # name)

(***************************************************************************)
(* The state.                                                              *)
(***************************************************************************)
VARIABLES
    env,                  \* the inputs of the workflow: INPUT_PREFIX, INPUT_SUFFIX,
                          \* INPUT_BUMP_STRATEGY, INPUT_DRY_RUN
    GITHUB_REF_NAME,      \* the branch the run is on
    GITHUB_SHA,           \* the commit the run is for, the newest one
    refs,                 \* the remote refs/tags, most recent first
    config,               \* the Configuration object of the process
    commit_messages,      \* messages of get_commits(since=last_tag.date)
    pc,                   \* the statement the run is at, or how it ended
    last_tag,             \* main.py globals
    bump_strategy,
    new_tag,
    pending,              \* tags the repoint loop has still to visit
    runs,                 \* number of runs started
    refs_before,          \* history: refs when the run started
    ops,                  \* history: remote mutations of the run, in order
    expected,             \* history: tag set the run yields if no call fails
    owed,                 \* history: expected and commit_messages of the
                          \* failed run that is being re-run, or <<>>
    aborted,              \* history: some run was aborted by a failed call
    calls,                \* number of function calls made
    version_in,           \* the version the argument tag of a call was made of
    result                \* what the last function call returned

vars == <<env, GITHUB_REF_NAME, GITHUB_SHA, refs, config, commit_messages, pc,
          last_tag, bump_strategy, new_tag, pending, runs, refs_before, ops,
          expected, owed, aborted, calls, version_in, result>>

call_vars == <<calls, version_in, result>>

(***************************************************************************)
(* Inputs.                                                                 *)
(***************************************************************************)
\* the (INPUT_PREFIX, INPUT_SUFFIX) pairs tried
Wrappers == {<< <<"v">>, <<>> >>, << <<"v">>, <<"-", "r">> >>}

Environments ==
    {[INPUT_PREFIX |-> w[1], INPUT_SUFFIX |-> w[2], INPUT_BUMP_STRATEGY |-> s,
      INPUT_DRY_RUN |-> d] :
        w \in Wrappers, s \in Range(BumpStrategy), d \in {"true", "false"}}

\* lines 53-61: config = Configuration(...)
Configuration(e) ==
    [DEFAULT_BUMP_STRATEGY |-> e.INPUT_BUMP_STRATEGY,
     DEFAULT_BRANCH |-> DEFAULT_BRANCH,
     PREFIX |-> e.INPUT_PREFIX,
     SUFFIX |-> e.INPUT_SUFFIX,
     DRY_RUN |-> (e.INPUT_DRY_RUN = "true")]

VersionName(cfg, major, minor, patch) ==
    cfg.PREFIX \o IntToStr(major) \o <<".">> \o IntToStr(minor) \o <<".">>
               \o IntToStr(patch) \o cfg.SUFFIX

MajorName(cfg, major) == cfg.PREFIX \o IntToStr(major) \o cfg.SUFFIX

\* the tag lists a repository starts with
InitialRefs(cfg) ==
    { <<>>,
      <<Tag(MajorName(cfg, 1), 1), Tag(VersionName(cfg, 1, 4, 2), 1)>>,
      <<Tag(MajorName(cfg, 2), 2), Tag(VersionName(cfg, 2, 0, 0), 2),
        Tag(MajorName(cfg, 1), 1), Tag(VersionName(cfg, 1, 4, 2), 1)>>,
      <<Tag(<<"n", "i", "g", "h", "t", "l", "y">>, 2),
        Tag(VersionName(cfg, 0, 9, 9), 1)>> }

\* commit messages
MsgPlain      == <<"f", "i", "x">>
MsgMajor      == <<"[", "#", "m", "a", "j", "o", "r", "]">>
MsgMinor      == <<"a", "d", "d", " ", "[", "#", "m", "i", "n", "o", "r", "]">>
MsgPatch      == <<"[", "#", "p", "a", "t", "c", "h", "]", " ", "f", "i", "x">>
MsgSkip       == <<"[", "#", "s", "k", "i", "p", "]">>
MsgUpperMajor == <<"[", "#", "M", "A", "J", "O", "R", "]">>
MsgMixedSkip  == <<"[", "#", "S", "k", "i", "p", "]">>

\* the commit windows a run may see
RunWindows == { <<>>, <<MsgMajor>>, <<MsgPlain, MsgMinor>>, <<MsgSkip>> }

NoTag == Tag(<<>>, 0)

NoVersion == [major |-> 0, minor |-> 0, patch |-> 0, prerelease |-> <<>>, build |-> <<>>]

(***************************************************************************)
(* main.py, one run of the script.                                         *)
(***************************************************************************)
\* the tag set a run leaves when every remote call succeeds
ExpectedTagSet(tags, strategy, tag, last, cfg) ==
    LET with_version == CreateRef(tags, tag.name, tag.commit)
        repointed == {n \in Names(with_version) : IsRepointed(n, cfg, last.name)}
    IN  IF strategy # "MAJOR"
        THEN {t \in TagSet(with_version) : t.name \notin repointed}
                \cup {Tag(n, tag.commit) : n \in repointed}
        ELSE TagSet(with_version) \cup {Tag(new_major_tag_name(tag.name, cfg), tag.commit)}

\* early_exit without the SKIP exit
early_exit_without_skip(branch, strategy, cfg) ==
    IF branch # cfg.DEFAULT_BRANCH THEN "exit_branch" ELSE "create_tag"

\* lines 63-65 and 140-142: where the script goes once the branch and the
\* strategy are known
early_exit(branch, strategy, cfg) ==
    IF branch # cfg.DEFAULT_BRANCH THEN "exit_branch"
    ELSE IF strategy = "SKIP" THEN "exit_skip"
    ELSE "create_tag"

\* lines 53-147: configuration, the default-branch check, tag resolution,
\* strategy selection, the SKIP exit and the version bump.  push tells
\* whether the run is for a new commit or re-runs the workflow; messages
\* are those of the commits the remote returns for the window, which
\* depends on the date of the tag and on the clocks of the commits
StartRun(branch, messages, push) ==
    /\ pc = "idle"
    /\ runs < MaxRuns
    /\ runs' = runs + 1
    /\ LET sha == IF push THEN GITHUB_SHA + 1 ELSE GITHUB_SHA
           cfg == Configuration(env)
           resolved == get_latest_tag_or_default(refs, cfg, sha)
           strategy == check_bump_strategy_since_last_tag(messages, resolved.config)
           bumped == bump_tag_version(strategy, resolved.tag, resolved.config, sha)
           next == early_exit(branch, strategy, cfg)
       IN  /\ GITHUB_SHA' = sha
           /\ GITHUB_REF_NAME' = branch
           /\ owed' = IF push \/ branch # cfg.DEFAULT_BRANCH
                         \/ (owed # <<>> /\ owed[2] # messages)
                      THEN <<>> ELSE owed
           /\ pc' = next
           /\ IF next = "exit_branch"
              THEN /\ expected' = TagSet(refs)
                   /\ UNCHANGED <<config, commit_messages, last_tag, bump_strategy, new_tag>>
              ELSE /\ config' = resolved.config
                   /\ commit_messages' = messages
                   /\ last_tag' = resolved.tag
                   /\ bump_strategy' = strategy
                   /\ IF next = "exit_skip"
                      THEN /\ expected' = TagSet(refs)
                           /\ UNCHANGED new_tag
                      ELSE /\ new_tag' = bumped
                           /\ expected' =
                                IF cfg.DRY_RUN THEN TagSet(refs)
                                ELSE ExpectedTagSet(refs, strategy, bumped,
                                                    resolved.tag, resolved.config)
    /\ UNCHANGED <<env, refs, refs_before, ops, pending, aborted, call_vars>>

\* the run ends because a remote call raised
Abort ==
    /\ pc' = "failed"
    /\ owed' = IF owed = <<>> THEN <<expected, commit_messages>> ELSE owed
    /\ aborted' = TRUE
    /\ UNCHANGED <<env, GITHUB_REF_NAME, GITHUB_SHA, refs, config, commit_messages,
                   last_tag, bump_strategy, new_tag, pending, runs, refs_before,
                   ops, expected, call_vars>>

\* lines 149-163: repo.create_git_tag for the version tag, then the
\* DRY_RUN test
CreateTagObject ==
    /\ pc = "create_tag"
    /\ \/ /\ ops' = Append(ops, [op |-> "create_tag", name |-> new_tag.name, sha |-> new_tag.commit])
          /\ pc' = IF config.DRY_RUN THEN "done" ELSE "create_ref"
          /\ UNCHANGED <<env, GITHUB_REF_NAME, GITHUB_SHA, refs, config,
                         commit_messages, last_tag, bump_strategy, new_tag,
                         pending, runs, refs_before, expected, owed, aborted, call_vars>>
       \/ Abort

\* lines 164-167: repo.create_git_ref for the version tag, then the
\* BIND_TO_MAJOR and strategy tests and the repo.get_tags() of the loop
CreateVersionRef ==
    /\ pc = "create_ref"
    /\ \/ /\ new_tag.name \notin Names(refs)
          /\ refs' = CreateRef(refs, new_tag.name, new_tag.commit)
          /\ ops' = Append(ops, [op |-> "create_ref", name |-> new_tag.name, sha |-> new_tag.commit])
          /\ IF ~BIND_TO_MAJOR
             THEN pc' = "done" /\ pending' = <<>>
             ELSE IF bump_strategy # "MAJOR"
             THEN /\ pending' = SelectSeq(refs', LAMBDA t : IsRepointed(t.name, config, last_tag.name))
                  /\ pc' = IF pending' = <<>> THEN "done" ELSE "delete_major"
             ELSE pc' = "create_major_tag" /\ pending' = <<>>
          /\ UNCHANGED <<env, GITHUB_REF_NAME, GITHUB_SHA, config, commit_messages,
                         last_tag, bump_strategy, new_tag, runs, refs_before,
                         expected, owed, aborted, call_vars>>
       \/ Abort

\* lines 176-187: new_tag is rebound to the visited tag and requests.delete
\* is called; its response is not looked at, so a refusal goes on
DeleteMajorRef ==
    /\ pc = "delete_major"
    /\ LET name == Head(pending).name
       IN  \/ /\ new_tag' = Tag(name, GITHUB_SHA)
              /\ \E deleted \in BOOLEAN :
                    /\ refs' = IF deleted THEN DeleteRef(refs, name) ELSE refs
                    /\ ops' = IF deleted /\ name \in Names(refs)
                              THEN Append(ops, [op |-> "delete_ref", name |-> name, sha |-> 0])
                              ELSE ops
              /\ pc' = "recreate_major"
              /\ UNCHANGED <<env, GITHUB_REF_NAME, GITHUB_SHA, config, commit_messages,
                             last_tag, bump_strategy, pending, runs, refs_before,
                             expected, owed, aborted, call_vars>>
           \/ Abort

\* line 188: repo.create_git_ref for the visited tag, then the next
\* iteration of the loop
RecreateMajorRef ==
    /\ pc = "recreate_major"
    /\ \/ /\ new_tag.name \notin Names(refs)
          /\ refs' = CreateRef(refs, new_tag.name, new_tag.commit)
          /\ ops' = Append(ops, [op |-> "create_ref", name |-> new_tag.name, sha |-> new_tag.commit])
          /\ pending' = Tail(pending)
          /\ pc' = IF pending' = <<>> THEN "done" ELSE "delete_major"
          /\ UNCHANGED <<env, GITHUB_REF_NAME, GITHUB_SHA, config, commit_messages,
                         last_tag, bump_strategy, new_tag, runs, refs_before,
                         expected, owed, aborted, call_vars>>
       \/ Abort

\* lines 190-212: new_major_tag and repo.create_git_tag for it
CreateMajorTagObject ==
    /\ pc = "create_major_tag"
    /\ LET new_major_tag == new_major_tag_name(new_tag.name, config)
       IN  \/ /\ ops' = Append(ops, [op |-> "create_tag", name |-> new_major_tag, sha |-> new_tag.commit])
              /\ pc' = "create_major_ref"
              /\ UNCHANGED <<env, GITHUB_REF_NAME, GITHUB_SHA, refs, config,
                             commit_messages, last_tag, bump_strategy, new_tag,
                             pending, runs, refs_before, expected, owed, aborted, call_vars>>
           \/ Abort

\* line 213: repo.create_git_ref for new_major_tag
CreateMajorRef ==
    /\ pc = "create_major_ref"
    /\ LET new_major_tag == new_major_tag_name(new_tag.name, config)
       IN  \/ /\ new_major_tag \notin Names(refs)
              /\ refs' = CreateRef(refs, new_major_tag, new_tag.commit)
              /\ ops' = Append(ops, [op |-> "create_ref", name |-> new_major_tag, sha |-> new_tag.commit])
              /\ pc' = "done"
              /\ UNCHANGED <<env, GITHUB_REF_NAME, GITHUB_SHA, config, commit_messages,
                             last_tag, bump_strategy, new_tag, pending, runs,
                             refs_before, expected, owed, aborted, call_vars>>
           \/ Abort

\* the interpreter exits (sys.exit(), the end of the script or an uncaught
\* exception): the process state is gone, the remote refs stay
ProcessExit ==
    /\ pc \in {"exit_branch", "exit_skip", "done", "failed"}
    /\ pc' = "idle"
    /\ config' = Configuration(env)
    /\ commit_messages' = <<>>
    /\ last_tag' = NoTag
    /\ bump_strategy' = "SKIP"
    /\ new_tag' = NoTag
    /\ pending' = <<>>
    /\ refs_before' = refs
    /\ ops' = <<>>
    /\ expected' = TagSet(refs)
    /\ UNCHANGED <<env, GITHUB_REF_NAME, GITHUB_SHA, refs, runs, owed, aborted, call_vars>>

Init ==
    /\ env \in Environments
    /\ config = Configuration(env)
    /\ refs \in InitialRefs(config)
    /\ GITHUB_REF_NAME = DEFAULT_BRANCH
    /\ GITHUB_SHA = 2
    /\ commit_messages = <<>>
    /\ pc = "idle"
    /\ last_tag = NoTag
    /\ bump_strategy = "SKIP"
    /\ new_tag = NoTag
    /\ pending = <<>>
    /\ runs = 0
    /\ refs_before = refs
    /\ ops = <<>>
    /\ expected = TagSet(refs)
    /\ owed = <<>>
    /\ aborted = FALSE
    /\ calls = 0
    /\ version_in = NoVersion
    /\ result = [op |-> "none"]

Next ==
    \/ \E branch \in {DEFAULT_BRANCH, "dev"}, messages \in RunWindows, push \in BOOLEAN :
            StartRun(branch, messages, push)
    \/ CreateTagObject
    \/ CreateVersionRef
    \/ DeleteMajorRef
    \/ RecreateMajorRef
    \/ CreateMajorTagObject
    \/ CreateMajorRef
    \/ ProcessExit

Spec == Init /\ [][Next]_vars

(***************************************************************************)
(* The functions of main.py and the methods of github_helpers.py, applied  *)
(* to drawn arguments.                                                     *)
(***************************************************************************)
\* the sequences over S of length at most n without a repeated element
RECURSIVE DistinctSeqs(_, _)
DistinctSeqs(S, n) ==
    IF n = 0 THEN {<<>>}
    ELSE LET shorter == DistinctSeqs(S, n - 1)
         IN  shorter \cup {Append(q, x) : q \in {r \in shorter : Len(r) = n - 1}, x \in S}

\* the sequences over S of length at most n
RECURSIVE SeqsUpTo(_, _)
SeqsUpTo(S, n) ==
    IF n = 0 THEN {<<>>}
    ELSE LET shorter == SeqsUpTo(S, n - 1)
         IN  shorter \cup {Append(q, x) : q \in {r \in shorter : Len(r) = n - 1}, x \in S}

\* tags a repository may hold: versions, a major tag, a pre-release, a name
\* with a malformed version, a name without the suffix, a foreign name
TagPool(cfg) ==
    { Tag(VersionName(cfg, 1, 4, 2), 1),
      Tag(VersionName(cfg, 2, 0, 0), 2),
      Tag(MajorName(cfg, 1), 3),
      Tag(cfg.PREFIX \o <<"3", ".", "0", ".", "0", "-", "r", "c", ".", "1">> \o cfg.SUFFIX, 5),
      Tag(cfg.PREFIX \o <<"0", "1", ".", "2", ".", "3">> \o cfg.SUFFIX, 7),
      Tag(cfg.PREFIX \o <<"9", ".", "9", ".", "9">> \o <<"-", "x">>, 8),
      Tag(<<"n", "i", "g", "h", "t", "l", "y">>, 9) }

TagLists(cfg) ==
    {q \in DistinctSeqs(TagPool(cfg), MaxTags) :
        \A i, j \in DOMAIN q : i # j => q[i].name # q[j].name}

Messages ==
    {MsgPlain, MsgMajor, MsgMinor, MsgPatch, MsgSkip, MsgUpperMajor, MsgMixedSkip}

Windows == SeqsUpTo(Messages, MaxWindow)

VersionNumbers == {0, 1, MaxVersion - 1, MaxVersion}

Versions ==
    [major : VersionNumbers, minor : VersionNumbers, patch : VersionNumbers,
     prerelease : {<<>>, <<"r", "c", ".", "1">>}, build : {<<>>}]

DefaultVersion == [major |-> 1, minor |-> 4, patch |-> 2, prerelease |-> <<>>, build |-> <<>>]

Call(r) ==
    /\ pc = "idle"
    /\ calls < MaxCalls
    /\ calls' = calls + 1
    /\ result' = r
    /\ UNCHANGED <<env, GITHUB_REF_NAME, GITHUB_SHA, commit_messages, pc, last_tag,
                   bump_strategy, new_tag, pending, runs, refs_before, expected,
                   owed, aborted, version_in>>

\* main.py get_latest_tag_or_default(repo); it may change config
CallGetLatestTagOrDefault ==
    LET r == get_latest_tag_or_default(refs, config, GITHUB_SHA)
    IN  /\ Call([op |-> "get_latest_tag_or_default", tag |-> r.tag])
        /\ config' = r.config
        /\ UNCHANGED <<refs, ops>>

\* main.py check_bump_strategy_since_last_tag(repo, last_tag)
CallCheckBumpStrategy ==
    /\ Call([op |-> "check_bump_strategy_since_last_tag",
             strategy |-> check_bump_strategy_since_last_tag(commit_messages, config)])
    /\ UNCHANGED <<config, refs, ops>>

\* main.py bump_tag_version(strategy, last_tag)
CallBumpTagVersion(strategy) ==
    /\ Call([op |-> "bump_tag_version", strategy |-> strategy,
             tag |-> bump_tag_version(strategy, last_tag, config, GITHUB_SHA)])
    /\ UNCHANGED <<config, refs, ops>>

\* github_helpers.py Tag.bump_version(strategy, config) on last_tag
CallTagBumpVersion(strategy) ==
    /\ Call([op |-> "Tag.bump_version", strategy |-> strategy,
             tag |-> Tag_bump_version(last_tag, BumpStrategyValue(strategy), config)])
    /\ UNCHANGED <<config, refs, ops>>

\* GitHubHelper.get_latest_tag()
CallHelperGetLatestTag ==
    /\ Call([op |-> "GitHubHelper.get_latest_tag",
             tag |-> get_latest_tag(refs, config, GITHUB_SHA)])
    /\ UNCHANGED <<config, refs, ops>>

\* GitHubHelper.get_latest_major_tag()
CallHelperGetLatestMajorTag ==
    /\ Call([op |-> "GitHubHelper.get_latest_major_tag",
             tag |-> get_latest_major_tag(refs, config, GITHUB_SHA)])
    /\ UNCHANGED <<config, refs, ops>>

\* GitHubHelper.create_git_tag(tag): the tag object, then the ref unless
\* DRY_RUN; create_git_ref raises when the name exists
CallHelperCreateGitTag(tag) ==
    /\ Call([op |-> "GitHubHelper.create_git_tag", tag |-> tag])
    /\ LET object == [op |-> "create_tag", name |-> tag.name, sha |-> tag.commit]
           ref    == [op |-> "create_ref", name |-> tag.name, sha |-> tag.commit]
       IN  IF ~config.DRY_RUN /\ tag.name \notin Names(refs)
           THEN /\ refs' = CreateRef(refs, tag.name, tag.commit)
                /\ ops' = ops \o <<object, ref>>
           ELSE /\ refs' = refs
                /\ ops' = Append(ops, object)
    /\ UNCHANGED config

\* GitHubHelper.delete_git_tag(tag_name): requests.delete, whatever
\* DRY_RUN is; the response is not looked at
CallHelperDeleteGitTag(tag_name) ==
    /\ Call([op |-> "GitHubHelper.delete_git_tag", name |-> tag_name])
    /\ \E deleted \in BOOLEAN :
        /\ refs' = IF deleted THEN DeleteRef(refs, tag_name) ELSE refs
        /\ ops' = IF deleted /\ tag_name \in Names(refs)
                  THEN Append(ops, [op |-> "delete_ref", name |-> tag_name, sha |-> 0])
                  ELSE ops
    /\ UNCHANGED config

CallInit ==
    /\ env \in Environments
    /\ config = Configuration(env)
    /\ \/ /\ refs \in TagLists(config)
          /\ commit_messages = <<>>
          /\ version_in = DefaultVersion
          /\ env.INPUT_BUMP_STRATEGY \in {"SKIP", "MAJOR"}
       \/ /\ refs = <<>>
          /\ commit_messages \in Windows
          /\ version_in = DefaultVersion
          /\ env.INPUT_DRY_RUN = "false" /\ env.INPUT_SUFFIX = <<>>
          /\ env.INPUT_BUMP_STRATEGY \in {"SKIP", "MAJOR"}
       \/ /\ refs = <<>>
          /\ commit_messages = <<>>
          /\ version_in \in Versions
          /\ env.INPUT_DRY_RUN = "false" /\ env.INPUT_BUMP_STRATEGY = "SKIP"
    /\ last_tag = Tag(config.PREFIX \o Version_str(version_in) \o config.SUFFIX, 1)
    /\ GITHUB_REF_NAME = DEFAULT_BRANCH
    /\ GITHUB_SHA = 2
    /\ pc = "idle"
    /\ bump_strategy = "SKIP"
    /\ new_tag = NoTag
    /\ pending = <<>>
    /\ runs = 0
    /\ refs_before = refs
    /\ ops = <<>>
    /\ expected = TagSet(refs)
    /\ owed = <<>>
    /\ aborted = FALSE
    /\ calls = 0
    /\ result = [op |-> "none"]

CallNext ==
    \/ CallGetLatestTagOrDefault
    \/ CallCheckBumpStrategy
    \/ \E strategy \in Range(BumpStrategy) : CallBumpTagVersion(strategy)
    \/ \E strategy \in Range(BumpStrategy) : CallTagBumpVersion(strategy)
    \/ CallHelperGetLatestTag
    \/ CallHelperGetLatestMajorTag
    \/ CallHelperCreateGitTag(last_tag)
    \/ \E t \in TagSet(refs) : CallHelperDeleteGitTag(t.name)

CallSpec == CallInit /\ [][CallNext]_vars

(***************************************************************************)
(* Properties.                                                             *)
(***************************************************************************)
\* a name made of the prefix, a valid version and the suffix
IsVersionName(name, cfg) ==
    /\ Len(name) >= Len(cfg.PREFIX) + Len(cfg.SUFFIX)
    /\ SubSeq(name, 1, Len(cfg.PREFIX)) = cfg.PREFIX
    /\ SubSeq(name, Len(name) - Len(cfg.SUFFIX) + 1, Len(name)) = cfg.SUFFIX
    /\ is_valid(SubSeq(name, Len(cfg.PREFIX) + 1, Len(name) - Len(cfg.SUFFIX)))

\* the version inside a version name
VersionOf(name, cfg) ==
    Version_parse(SubSeq(name, Len(cfg.PREFIX) + 1, Len(name) - Len(cfg.SUFFIX)))

\* a name made of the prefix, a number and the suffix
IsMajorPointerName(name, cfg) ==
    /\ Len(name) >= Len(cfg.PREFIX) + Len(cfg.SUFFIX)
    /\ SubSeq(name, 1, Len(cfg.PREFIX)) = cfg.PREFIX
    /\ SubSeq(name, Len(name) - Len(cfg.SUFFIX) + 1, Len(name)) = cfg.SUFFIX
    /\ IsNumericId(SubSeq(name, Len(cfg.PREFIX) + 1, Len(name) - Len(cfg.SUFFIX)))

MajorPointerNumber(name, cfg) ==
    StrToInt(SubSeq(name, Len(cfg.PREFIX) + 1, Len(name) - Len(cfg.SUFFIX)))

\* the message contains a marker, in any letter case
HasMarker(message) ==
    \E i \in DOMAIN BumpStrategy : Contains(Lower(message), Marker(BumpStrategy[i]))

Min(S) == CHOOSE i \in S : \A j \in S : i <= j

Triple(v) == <<v.major, v.minor, v.patch>>

LexLess(a, b) ==
    \/ a[1] < b[1]
    \/ a[1] = b[1] /\ a[2] < b[2]
    \/ a[1] = b[1] /\ a[2] = b[2] /\ a[3] < b[3]

\* C1: after a non-dry MAJOR run with BIND_TO_MAJOR, the major tag named
\* prefix + M + suffix, M the major number of the new version tag, exists
\* and targets the commit of the run, and every major tag that existed
\* before the run has kept its name and target.
C1_MajorTagOfBumpedVersion ==
    (pc = "done" /\ bump_strategy = "MAJOR" /\ ~config.DRY_RUN /\ BIND_TO_MAJOR) =>
        /\ Tag(MajorName(config, VersionOf(new_tag.name, config).major), GITHUB_SHA)
                \in TagSet(refs)
        /\ \A t \in TagSet(refs_before) :
                IsMajorPointerName(t.name, config) => t \in TagSet(refs)

\* C2: when no run was aborted and the workflow is not a dry run, between
\* runs every major tag prefix + N + suffix targets the commit of the most
\* recent version tag whose major number is N.
C2_MajorTagFollowsItsLine ==
    (pc \in {"idle", "done", "exit_skip", "exit_branch"} /\ ~aborted
     /\ ~config.DRY_RUN /\ BIND_TO_MAJOR) =>
        \A i \in DOMAIN refs :
            IsMajorPointerName(refs[i].name, config) =>
                LET N == MajorPointerNumber(refs[i].name, config)
                    line == {j \in DOMAIN refs :
                                /\ IsVersionName(refs[j].name, config)
                                /\ VersionOf(refs[j].name, config).major = N}
                IN  line # {} /\ refs[Min(line)].commit = refs[i].commit

\* C3: a non-dry MINOR or PATCH run that finds the major tag of the current
\* version line deletes that tag and then creates it again on the commit
\* of the run, and deletes or creates no other tag after the version tag.
C3_OnlyTheLineIsRepointed ==
    LET line == MajorName(config, VersionOf(last_tag.name, config).major)
    IN  (pc = "done" /\ bump_strategy \in {"MINOR", "PATCH"} /\ ~config.DRY_RUN
         /\ BIND_TO_MAJOR /\ line \in Names(refs_before)) =>
            SubSeq(ops, 3, Len(ops)) =
                << [op |-> "delete_ref", name |-> line, sha |-> 0],
                   [op |-> "create_ref", name |-> line, sha |-> GITHUB_SHA] >>

\* C4: a run mutates the remote only on the default branch with a strategy
\* other than SKIP; off the default branch or with SKIP selected it exits
\* having made no remote call and with the refs as they were.
C4_NoMutationOffBranchOrOnSkip ==
    pc # "idle" =>
        /\ (ops # <<>> \/ refs # refs_before) =>
                GITHUB_REF_NAME = config.DEFAULT_BRANCH /\ bump_strategy # "SKIP"
        /\ (GITHUB_REF_NAME # config.DEFAULT_BRANCH \/ bump_strategy = "SKIP") =>
                /\ pc \in {"exit_branch", "exit_skip"}
                /\ ops = <<>>
                /\ refs = refs_before

\* C4, its case: the default strategy SKIP is selected because no commit
\* carries a marker, in a repository that has tags.
C4_Witness ==
    /\ pc = "exit_skip"
    /\ env.INPUT_BUMP_STRATEGY = "SKIP"
    /\ \A i \in DOMAIN commit_messages : ~HasMarker(commit_messages[i])
    /\ refs # <<>>
    /\ refs = refs_before

\* C5: with DRY_RUN set, no main.py run and no GitHubHelper method creates
\* or deletes a ref: the refs stay as they were and only tag objects are
\* created.
C5_DryRunTouchesNoRef ==
    config.DRY_RUN =>
        /\ refs = refs_before
        /\ \A i \in DOMAIN ops : ops[i].op = "create_tag"

\* C6: the strategy selected is the one named by a marker of the first
\* commit whose message contains a marker in any letter case, and the
\* default strategy when no message contains one.
C6_FirstMarkerAnyCase ==
    result.op = "check_bump_strategy_since_last_tag" =>
        LET marked == {i \in DOMAIN commit_messages : HasMarker(commit_messages[i])}
        IN  IF marked = {} THEN result.strategy = config.DEFAULT_BUMP_STRATEGY
            ELSE Contains(Lower(commit_messages[Min(marked)]), Marker(result.strategy))

\* C7: get_latest_tag_or_default and GitHubHelper.get_latest_tag return the
\* first tag of the list whose name is prefix + valid version + suffix,
\* whatever malformed names precede it, and the synthetic tag prefix +
\* "0.0.0" + suffix on the newest commit when the list has no such tag.
C7_FirstVersionTagOrZero ==
    result.op \in {"get_latest_tag_or_default", "GitHubHelper.get_latest_tag"} =>
        LET versions == {i \in DOMAIN refs : IsVersionName(refs[i].name, config)}
        IN  IF versions # {}
            THEN result.tag = Tag(refs[Min(versions)].name, refs[Min(versions)].commit)
            ELSE result.tag = Tag(config.PREFIX \o <<"0", ".", "0", ".", "0">> \o config.SUFFIX,
                                  GITHUB_SHA)

\* C7, its case: a name with a malformed version comes first and is
\* skipped, and a second version tag comes later in the list.
C7_Witness ==
    /\ result.op = "get_latest_tag_or_default"
    /\ Len(refs) = 2
    /\ StartsWith(refs[1].name, config.PREFIX) /\ EndsWith(refs[1].name, config.SUFFIX)
    /\ ~IsVersionName(refs[1].name, config)
    /\ result.tag.name = refs[2].name

\* C8: bump_tag_version and Tag.bump_version give prefix + bumped version +
\* suffix: MAJOR (major+1, 0, 0), MINOR (major, minor+1, 0), PATCH (major,
\* minor, patch+1); the new version is greater and its lower fields are 0.
C8_BumpedVersion ==
    (result.op \in {"bump_tag_version", "Tag.bump_version"}
     /\ result.strategy \in {"MAJOR", "MINOR", "PATCH"}) =>
        LET v == version_in
            bumped == CASE result.strategy = "MAJOR" -> <<v.major + 1, 0, 0>>
                        [] result.strategy = "MINOR" -> <<v.major, v.minor + 1, 0>>
                        [] result.strategy = "PATCH" -> <<v.major, v.minor, v.patch + 1>>
        IN  /\ result.tag.name = VersionName(config, bumped[1], bumped[2], bumped[3])
            /\ IsVersionName(result.tag.name, config)
            /\ LexLess(Triple(v), Triple(VersionOf(result.tag.name, config)))

\* C8, its case: a MINOR bump of 1.4.2 gives 1.5.0.
C8_Witness ==
    /\ result.op = "bump_tag_version"
    /\ result.strategy = "MINOR"
    /\ Triple(version_in) = <<1, 4, 2>>
    /\ result.tag.name = VersionName(config, 1, 5, 0)

\* C9: when a failed non-dry run is re-run with no new commit, on the same
\* branch and seeing the same commits, the re-run that completes leaves the
\* tag set of a run in which no call failed.
C9_RerunCompletesTheFailedRun ==
    (pc \in {"done", "exit_skip"} /\ owed # <<>> /\ ~config.DRY_RUN /\ BIND_TO_MAJOR) =>
        TagSet(refs) = owed[1]

====
